---- MODULE Spec2Model ----
(***************************************************************************)
(* Model of the controller of firefox-session-ui-gpui (src/src/main.rs):   *)
(* FirefoxSessionUtility and its Update<Command> handler, the TabGroupList *)
(* delegate that owns the selection, and the background workers spawned by *)
(* LoadNewInputData, RegeneratePreview and TabGroupList::confirm.          *)
(*                                                                         *)
(* The modules `host` and `elm` are declared in main.rs (lines 3-4) but    *)
(* their files are not part of src/.  What the model needs from them       *)
(* (FileInfo's stage transitions, GenerateOptions::selected_groups,        *)
(* MsgSender's ordered delivery) is modelled from spec.md and is marked    *)
(* so in MODEL_MAP.json.                                                   *)
(***************************************************************************)
EXTENDS Integers, Sequences, FiniteSets, Bags, TLC

(* ------------------------------ bounds --------------------------------- *)
\* Number of LoadNewInputData commands a behaviour may handle.
MaxLoads == 2
\* Largest number of open windows, and of closed windows, in a session.
MaxGroups == 2
MaxClosed == 1
\* Number of preview requests/workers that may be in flight together.
MaxInFlight == 1
\* Number of SaveLinksToFile commands a behaviour may handle.
MaxSaves == 2
\* Number of preview requests/workers in flight together where confirms
\* follow each other quickly.
MaxPreviews == 2

(* --------------------------- Option<T> --------------------------------- *)
\* Option<T> is a sequence of length 0 (None) or 1 (Some(v)).
None == <<>>
Some(v) == <<v>>
IsSome(o) == o # None
Unwrap(o) == o[1]

(* ------------------------------ Vec<u32> ------------------------------- *)
\* Vec::contains
Contains(s, x) == \E i \in 1..Len(s) : s[i] = x
\* Vec::retain(|v| *v != x)
Retain(s, x) == SelectSeq(s, LAMBDA v : v # x)
\* Option::get_or_insert_with(Vec::new): the option afterwards
GetOrInsertEmpty(o) == IF IsSome(o) THEN o ELSE Some(<<>>)

(* ------------------------- status strings ------------------------------ *)
StReading == "Reading input file"
StDecompressing == "Decompressing data"
StParsing == "Parsing session data"
StGenerating == "Generating preview"
StLoaded == "Successfully loaded session data"
\* format!("Failed to ...: {e}"): the error text e is left out of the model.
StFailRead == "Failed to read file"
StFailDecompress == "Failed to decompress data"
StFailParse == "Failed to parse session data"
StFailList == "Failed to list windows in session"
StFailPreview == "Failed to generate preview"
FailureStatuses == {StFailRead, StFailDecompress, StFailParse, StFailList, StFailPreview}
StSaving == "Saving links to file"
StSaved == "Successfully saved links to a file"
StFailSave == "Failed to save links to file"

(* ------------------------------ host types ----------------------------- *)
\* Option<host::FileData>, by variant only.
Stages == <<"NoData", "Compressed", "Uncompressed", "Parsed">>
StageRank(stage) == CHOOSE i \in 1..Len(Stages) : Stages[i] = stage

Paths == {"a.jsonlz4", "b.jsonlz4"}
\* A path that is not valid UTF-8 (its third byte is E9), and the paths
\* of the files a dialog or the wizard can return.
NonUtf8Path == "ca<E9>.jsonlz4"
FilePaths == Paths \cup {NonUtf8Path}
\* Path::to_string_lossy: the text of the path, with U+FFFD in the place
\* of what is not valid UTF-8.
ToStringLossy(p) == IF p = NonUtf8Path THEN "ca<U+FFFD>.jsonlz4" ELSE p
\* What the input path field can read: nothing, or the text of a path.
InputTexts == {""} \cup {ToStringLossy(p) : p \in FilePaths}

\* host::FileInfo::new(path): a record without data.  `load` is a history
\* field: the number of the LoadNewInputData that created the record.
NewFileInfo(path, handle, load) ==
    [path |-> path, file_handle |-> handle, data |-> "NoData", load |-> load]

\* host::AllTabGroups, by the lengths of its partitions (TabGroupInfo.index is
\* the position in the partition).  `load` is a history field as above.
DefaultTabGroups == [open |-> 0, closed |-> 0, load |-> 0]

\* host::FormatInfo::all(), two of them.
Formats == {"PDF", "HTML"}

\* The paths of the output field: its default and one the file dialog gives.
SavePaths == {"", "links.pdf"}

\* host::GenerateOptions::default()
DefaultGenerateOptions == [open_group_indexes |-> None, closed_group_indexes |-> None]

\* host::GenerateOptions::selected_groups, resolved against the partitions'
\* lengths: None counts every group of the partition.
SelectedGroups(sel, groups) ==
    (IF IsSome(sel.open_group_indexes)
        THEN Len(Unwrap(sel.open_group_indexes)) ELSE groups.open)
    + (IF IsSome(sel.closed_group_indexes)
        THEN Len(Unwrap(sel.closed_group_indexes)) ELSE groups.closed)

\* The number of groups of `groups` a rendering with the selection sel
\* includes (spec.md section 4.5): every group of a partition whose list is
\* None, the groups whose index is listed otherwise.
IncludedOf(o, len) ==
    IF IsSome(o) THEN Cardinality({i \in 0..(len - 1) : Contains(Unwrap(o), i)})
                 ELSE len
Included(sel, groups) ==
    IncludedOf(sel.open_group_indexes, groups.open)
    + IncludedOf(sel.closed_group_indexes, groups.closed)

(* ---------------- TabGroupList::change_selected_tab_group -------------- *)
\* The (indexes, other) pair after the optional std::mem::swap.
TargetOf(sel, open) ==
    IF open THEN sel.open_group_indexes ELSE sel.closed_group_indexes
OtherOf(sel, open) ==
    IF open THEN sel.closed_group_indexes ELSE sel.open_group_indexes
\* Writing the pair back through the two &mut references.
WithPair(open, target, other) ==
    IF open THEN [open_group_indexes |-> target, closed_group_indexes |-> other]
            ELSE [open_group_indexes |-> other, closed_group_indexes |-> target]

\* SelectBranch without `other.get_or_insert_with(Vec::new)`.
SelectBranchKeepsOther(sel, index, open) ==
    LET indexes == GetOrInsertEmpty(TargetOf(sel, open))
    IN  IF ~Contains(Unwrap(indexes), index)
        THEN [sel |-> WithPair(open, Some(Append(Unwrap(indexes), index)), OtherOf(sel, open)),
              ret |-> TRUE]
        ELSE [sel |-> WithPair(open, indexes, OtherOf(sel, open)), ret |-> FALSE]

\* SelectBranch without the test `!indexes.contains(&index)`.
SelectBranchAlwaysPushes(sel, index, open) ==
    LET indexes == GetOrInsertEmpty(TargetOf(sel, open))
        other == GetOrInsertEmpty(OtherOf(sel, open))
    IN  [sel |-> WithPair(open, Some(Append(Unwrap(indexes), index)), other),
         ret |-> TRUE]

\* SelectBranch with the test made on the other partition's list.
SelectBranchTestsOther(sel, index, open) ==
    LET indexes == GetOrInsertEmpty(TargetOf(sel, open))
        other == GetOrInsertEmpty(OtherOf(sel, open))
    IN  IF ~Contains(Unwrap(other), index)
        THEN [sel |-> WithPair(open, Some(Append(Unwrap(indexes), index)), other),
              ret |-> TRUE]
        ELSE [sel |-> WithPair(open, indexes, other), ret |-> FALSE]

\* select == true
SelectBranch(sel, index, open) ==
    LET indexes == GetOrInsertEmpty(TargetOf(sel, open))
        other == GetOrInsertEmpty(OtherOf(sel, open))
    IN  IF ~Contains(Unwrap(indexes), index)
        THEN [sel |-> WithPair(open, Some(Append(Unwrap(indexes), index)), other),
              ret |-> TRUE]
        ELSE [sel |-> WithPair(open, indexes, other), ret |-> FALSE]

\* The fallback with the two partitions taken for each other.
FallbackResetsClosed(sel, groups) ==
    IF SelectedGroups(sel, groups) = 0
    THEN [open_group_indexes |-> GetOrInsertEmpty(sel.open_group_indexes),
          closed_group_indexes |-> None]
    ELSE sel

\* The fallback applied as soon as one of the lists is empty.
FallbackWhenEitherEmpty(sel, groups) ==
    IF \/ sel.open_group_indexes = Some(<<>>)
       \/ sel.closed_group_indexes = Some(<<>>)
    THEN [open_group_indexes |-> None,
          closed_group_indexes |-> GetOrInsertEmpty(sel.closed_group_indexes)]
    ELSE sel

\* The fallback applied after every removal, without the count.
FallbackAfterEveryRemoval(sel, groups) ==
    [open_group_indexes |-> None,
     closed_group_indexes |-> GetOrInsertEmpty(sel.closed_group_indexes)]

\* The fallback applied when a removal leaves nothing selected.
FallbackIfNothingSelected(sel, groups) ==
    IF SelectedGroups(sel, groups) = 0
    THEN [open_group_indexes |-> None,
          closed_group_indexes |-> GetOrInsertEmpty(sel.closed_group_indexes)]
    ELSE sel

\* DeselectBranch without the fallback: the removal is all it does.
DeselectBranchNoFallback(sel, groups, index, open) ==
    IF IsSome(TargetOf(sel, open))
    THEN LET old == Unwrap(TargetOf(sel, open))
             new == Retain(old, index)
         IN  IF Len(new) # Len(old)
             THEN [sel |-> WithPair(open, Some(new), OtherOf(sel, open)), ret |-> TRUE]
             ELSE [sel |-> sel, ret |-> FALSE]
    ELSE [sel |-> sel, ret |-> FALSE]

\* select == false
DeselectBranch(sel, groups, index, open) ==
    IF IsSome(TargetOf(sel, open))
    THEN LET old == Unwrap(TargetOf(sel, open))
             new == Retain(old, index)
         IN  IF Len(new) # Len(old)
             THEN [sel |-> FallbackIfNothingSelected(
                               WithPair(open, Some(new), OtherOf(sel, open)), groups),
                   ret |-> TRUE]
             ELSE [sel |-> sel, ret |-> FALSE]
    ELSE [sel |-> sel, ret |-> FALSE]

\* The selection afterwards and the returned bool.
ChangeSelectedTabGroup(sel, groups, index, open, select) ==
    IF select THEN SelectBranch(sel, index, open)
              ELSE DeselectBranch(sel, groups, index, open)

(* ------------------ host::FileInfo (spec.md section 4.6) --------------- *)
\* What load_data can leave in data on success.
LoadDataResults == {"Compressed", "Uncompressed"}
\* FileInfo::load_data on success.
LoadData(data, stage) == [data EXCEPT !.data = stage]
\* FileInfo::decompress_data on success: Compressed -> Uncompressed.
DecompressData(data) == [data EXCEPT !.data = "Uncompressed"]
\* FileInfo::parse_session_data on success: Uncompressed -> Parsed.
ParseSessionData(data) == [data EXCEPT !.data = "Parsed"]
\* FileInfo::get_groups_from_session on success: any session of the bound.
GroupsOfSession(data) ==
    {[open |-> o, closed |-> c, load |-> data.load] : o \in 0..MaxGroups, c \in 0..MaxClosed}
\* FileInfo::to_text_links on success: the text is a function of the record
\* and of the options it was given.
ToTextLinks(data, options) == [data |-> data, options |-> options]

(* ------------------------------ Command -------------------------------- *)
NoFileInfo == NewFileInfo("", None, 0)
NoPreview == ToTextLinks(NoFileInfo, DefaultGenerateOptions)
CmdUpdateLoadedData(data) ==
    [cmd |-> "UpdateLoadedData", data |-> data, groups |-> DefaultTabGroups,
     text |-> "", preview |-> NoPreview]
CmdParsedTabGroups(groups) ==
    [cmd |-> "ParsedTabGroups", data |-> NoFileInfo, groups |-> groups,
     text |-> "", preview |-> NoPreview]
CmdSetStatus(text) ==
    [cmd |-> "SetStatus", data |-> NoFileInfo, groups |-> DefaultTabGroups,
     text |-> text, preview |-> NoPreview]
CmdSetPreview(v) ==
    [cmd |-> "SetPreview", data |-> NoFileInfo, groups |-> DefaultTabGroups,
     text |-> "", preview |-> v]
CmdRegeneratePreview ==
    [cmd |-> "RegeneratePreview", data |-> NoFileInfo, groups |-> DefaultTabGroups,
     text |-> "", preview |-> NoPreview]

(* ------------------------------- state --------------------------------- *)
VARIABLES
    new_input,            \* text of the input path field
    new_input_data,       \* Option<rfd::FileHandle>, a handle being its path
    loaded_input,         \* text of the "loaded from" field
    loaded_input_data,    \* Option<host::FileInfo>
    tab_groups,           \* TabGroupList.tab_groups
    selected_tab_groups,  \* TabGroupList.selected_tab_groups
    selected_item,        \* TabGroupList.selected_item: Option<IndexPath>
    preview,              \* Option of the preview text (None: never set)
    status,               \* text of the status field
    loads,                \* number of LoadNewInputData handled so far
    workers,              \* the load workers, by the number of their load
    regen_pending,        \* tasks spawned by confirm that have yet to run
    preview_tasks,        \* bag of the preview workers awaiting to_text_links
    output_path,          \* text of the output path field
    create_folder,        \* the "Create folder if it doesn't exist" checkbox
    overwrite,            \* the "Overwrite file if it already exists" checkbox
    output_format,        \* Option: the selected value of the format dropdown
    saves,                \* number of save workers spawned so far
    save_tasks,           \* the save workers awaiting save_links
    written,              \* the file system: for each path, what the last
                          \* successful save_links wrote there, if any did
    save_log,             \* history: for each save, the statuses set for it
                          \* and the result of its save_links
    sent,                 \* history, kept by LoadSpec only: every command
                          \* each load worker has sent, in order
    hist,                 \* history: statuses set since an undisturbed load
    handled,              \* history: the command handed to Update::update in
                          \* the step that led here, where the step records it
    last_call             \* history: the call of change_selected_tab_group
                          \* made by the step that led here, if it made one

vars == <<new_input, new_input_data, loaded_input, loaded_input_data, tab_groups,
          selected_tab_groups, selected_item, preview, status, loads, workers,
          regen_pending, preview_tasks, output_path, create_folder, overwrite,
          output_format, saves, save_tasks, written, save_log, sent, hist,
          handled, last_call>>

LoadIds == 1..MaxLoads
SaveIds == 1..MaxSaves
\* The history of a save that has not been started.
NoSave == [statuses |-> <<>>, result |-> "none"]

\* A worker that has not been spawned.  `first` is a history field: the
\* stage load_data left the record at.
IdleWorker == [pc |-> "idle", data |-> NoFileInfo, first |-> "NoData"]

\* The lists host::FormatInfo::all() may be: with and without PDF.
FormatLists == {Formats, Formats \ {"PDF"}}
\* The selection the dropdown starts with: the position of PDF in the list.
InitialFormat(all) == IF "PDF" \in all THEN Some("PDF") ELSE None

\* FirefoxSessionUtility::new, where host::FormatInfo::all() is `all`.
Created(all) ==
    /\ new_input = ""
    /\ new_input_data = None
    /\ loaded_input = ""
    /\ loaded_input_data = None
    /\ tab_groups = DefaultTabGroups
    /\ selected_tab_groups = DefaultGenerateOptions
    /\ selected_item = None
    /\ preview = None
    /\ status = ""
    /\ loads = 0
    /\ workers = [w \in LoadIds |-> IdleWorker]
    /\ regen_pending = 0
    /\ preview_tasks = EmptyBag
    /\ output_path = ""
    /\ create_folder = FALSE
    /\ overwrite = FALSE
    /\ output_format = InitialFormat(all)
    /\ saves = 0
    /\ save_tasks = {}
    /\ written = [p \in SavePaths |-> None]
    /\ save_log = [k \in SaveIds |-> NoSave]
    /\ hist = None
    /\ handled = None
    /\ last_call = None

\* FirefoxSessionUtility::new
New == Created(Formats)

\* The start, without and with the history of the commands sent.
Init == New /\ sent = None
\* The start, whatever the list of formats.
InitAnyFormats == (\E all \in FormatLists : Created(all)) /\ sent = None
InitLogged == New /\ sent = Some([w \in LoadIds |-> <<>>])

\* The state as one record, so that a handler is a function of the state and
\* the handlers a worker triggers in one stretch compose.  handled and
\* last_call start every step empty.
Self ==
    [new_input |-> new_input, new_input_data |-> new_input_data,
     loaded_input |-> loaded_input, loaded_input_data |-> loaded_input_data,
     tab_groups |-> tab_groups, selected_tab_groups |-> selected_tab_groups,
     selected_item |-> selected_item, preview |-> preview, status |-> status,
     loads |-> loads, workers |-> workers, regen_pending |-> regen_pending,
     preview_tasks |-> preview_tasks, output_path |-> output_path,
     create_folder |-> create_folder, overwrite |-> overwrite,
     output_format |-> output_format, saves |-> saves, save_tasks |-> save_tasks,
     written |-> written, save_log |-> save_log, sent |-> sent, hist |-> hist,
     handled |-> None, last_call |-> None]

\* The step to the state s.
Becomes(s) ==
    /\ new_input' = s.new_input
    /\ new_input_data' = s.new_input_data
    /\ loaded_input' = s.loaded_input
    /\ loaded_input_data' = s.loaded_input_data
    /\ tab_groups' = s.tab_groups
    /\ selected_tab_groups' = s.selected_tab_groups
    /\ selected_item' = s.selected_item
    /\ preview' = s.preview
    /\ status' = s.status
    /\ loads' = s.loads
    /\ workers' = s.workers
    /\ regen_pending' = s.regen_pending
    /\ preview_tasks' = s.preview_tasks
    /\ output_path' = s.output_path
    /\ create_folder' = s.create_folder
    /\ overwrite' = s.overwrite
    /\ output_format' = s.output_format
    /\ saves' = s.saves
    /\ save_tasks' = s.save_tasks
    /\ written' = s.written
    /\ save_log' = s.save_log
    /\ sent' = s.sent
    /\ hist' = s.hist
    /\ handled' = s.handled
    /\ last_call' = s.last_call

\* Tasks spawned and not finished, against MaxInFlight.
InFlight(s) == s.regen_pending + BagCardinality(s.preview_tasks)
\* Nothing is running.
Quiet(s) ==
    /\ InFlight(s) = 0
    /\ \A w \in LoadIds : s.workers[w].pc \in {"idle", "done"}

(* ------------------------ Update::update arms -------------------------- *)
\* FirefoxSessionUtility::set_status (the history records the call)
set_status(s, new_status) ==
    [s EXCEPT !.status = new_status,
              !.hist = IF IsSome(@) THEN Some(Append(Unwrap(@), new_status)) ELSE None]

\* Command::SetInputPath(input_path, data)
SetInputPath(s, input_path, data) ==
    [s EXCEPT !.new_input_data = data, !.new_input = input_path]

\* LoadNewInputData that resets the open list only and leaves the closed
\* list as the previous file had it.
LoadNewInputDataKeepsClosed(s) ==
    LET input_path == s.new_input
        data == NewFileInfo(IF IsSome(s.new_input_data) THEN Unwrap(s.new_input_data)
                                                        ELSE input_path,
                            s.new_input_data, s.loads + 1)
        s1 == [s EXCEPT !.loaded_input = input_path,
                        !.loaded_input_data = Some(data),
                        !.selected_tab_groups.open_group_indexes = None,
                        !.loads = @ + 1,
                        !.workers[s.loads + 1] =
                            [pc |-> "load_data", data |-> data, first |-> "NoData"],
                        !.hist = IF Quiet(s) THEN Some(<<>>) ELSE None]
    IN  set_status(s1, StReading)

\* Command::LoadNewInputData, with the spawn of its worker, which owns a
\* clone of the new record.
LoadNewInputData(s) ==
    LET input_path == s.new_input
        data == NewFileInfo(IF IsSome(s.new_input_data) THEN Unwrap(s.new_input_data)
                                                        ELSE input_path,
                            s.new_input_data, s.loads + 1)
        s1 == [s EXCEPT !.loaded_input = input_path,
                        !.loaded_input_data = Some(data),
                        !.selected_tab_groups =
                            [open_group_indexes |-> None,
                             closed_group_indexes |-> Some(<<>>)],
                        !.loads = @ + 1,
                        !.workers[s.loads + 1] =
                            [pc |-> "load_data", data |-> data, first |-> "NoData"],
                        !.hist = IF Quiet(s) THEN Some(<<>>) ELSE None]
    IN  set_status(s1, StReading)

\* Command::UpdateLoadedData(data)
UpdateLoadedData(s, data) ==
    [s EXCEPT !.loaded_input_data = Some(data)]

\* Command::RegeneratePreview, with the spawn of its worker, which owns
\* clones of loaded_input_data and of the selection.
RegeneratePreview(s) ==
    IF ~IsSome(s.loaded_input_data)
    THEN s
    ELSE LET data == Unwrap(s.loaded_input_data)
             options == s.selected_tab_groups
             s1 == set_status(s, StGenerating)
         IN  [s1 EXCEPT !.preview_tasks =
                           @ (+) SetToBag({[data |-> data, options |-> options]})]

\* Command::ParsedTabGroups(all_groups)
ParsedTabGroups(s, all_groups) ==
    RegeneratePreview([s EXCEPT !.tab_groups = all_groups])

\* Command::SetPreview(v)
SetPreview(s, v) ==
    set_status([s EXCEPT !.preview = Some(v)], StLoaded)

\* Command::SetStatus(v)
SetStatus(s, v) == set_status(s, v)

\* Command::SetSavePath(v)
SetSavePath(s, v) == [s EXCEPT !.output_path = v]

\* The clones the save worker owns: the record, the path, the selection and
\* the output options, as they are when SaveLinksToFile is handled.  `id` is
\* a history field: the number of the save.
SaveTask(s) ==
    [id |-> s.saves + 1,
     data |-> Unwrap(s.loaded_input_data),
     save_path |-> s.output_path,
     selected |-> s.selected_tab_groups,
     output_options |-> [format |-> Unwrap(s.output_format),
                         overwrite |-> s.overwrite,
                         create_folder |-> s.create_folder]]

\* SaveLinksToFile that sets the status before it looks for the format.
SaveLinksToFileStatusFirst(s) ==
    IF ~IsSome(s.loaded_input_data) THEN s
    ELSE LET s1 == set_status(s, StSaving)
         IN  IF ~IsSome(s.output_format) THEN s1
             ELSE [s1 EXCEPT !.saves = @ + 1,
                             !.save_tasks = @ \cup {SaveTask(s)},
                             !.save_log[s.saves + 1].statuses = <<StSaving>>]

\* Command::SaveLinksToFile, with the spawn of its worker.
SaveLinksToFile(s) ==
    IF ~IsSome(s.loaded_input_data) THEN s
    ELSE IF ~IsSome(s.output_format) THEN s
    ELSE LET s1 == set_status(s, StSaving)
         IN  [s1 EXCEPT !.saves = @ + 1,
                        !.save_tasks = @ \cup {SaveTask(s)},
                        !.save_log[s.saves + 1].statuses = <<StSaving>>]

\* Update::update for the commands that workers send.
Update(s, msg) ==
    CASE msg.cmd = "UpdateLoadedData" -> UpdateLoadedData(s, msg.data)
      [] msg.cmd = "ParsedTabGroups" -> ParsedTabGroups(s, msg.groups)
      [] msg.cmd = "RegeneratePreview" -> RegeneratePreview(s)
      [] msg.cmd = "SetPreview" -> SetPreview(s, msg.preview)
      [] msg.cmd = "SetStatus" -> SetStatus(s, msg.text)

\* The commands msgs handled one after the other.
RECURSIVE UpdateAll(_, _)
UpdateAll(s, msgs) ==
    IF msgs = <<>> THEN s ELSE UpdateAll(Update(s, Head(msgs)), Tail(msgs))

(* --------------------- the worker of LoadNewInputData ------------------ *)
\* MsgSender::send by the worker of load w, once for each of msgs.  A worker
\* of an earlier load ends the history of the latest one.
Send(s, w, msgs) ==
    UpdateAll([s EXCEPT !.sent = IF IsSome(@)
                                    THEN Some([Unwrap(@) EXCEPT ![w] = @ \o msgs])
                                    ELSE None,
                        !.hist = IF w = s.loads THEN @ ELSE None],
              msgs)

\* LoopMatch with the two status texts taken for each other.
LoopMatchSwappedStatus(data) ==
    CASE data.data = "Compressed" ->
             [msgs |-> <<CmdSetStatus(StParsing)>>, pc |-> "decompress"]
      [] data.data = "Uncompressed" ->
             [msgs |-> <<CmdSetStatus(StDecompressing)>>, pc |-> "parse"]
      [] data.data = "Parsed" -> [msgs |-> <<>>, pc |-> "groups"]
      [] OTHER -> [msgs |-> <<>>, pc |-> "unreachable"]

\* One turn of `loop { match &data.data { .. } }` up to its await: the status
\* it sends and the call it then waits for.
LoopMatch(data) ==
    CASE data.data = "Compressed" ->
             [msgs |-> <<CmdSetStatus(StDecompressing)>>, pc |-> "decompress"]
      [] data.data = "Uncompressed" ->
             [msgs |-> <<CmdSetStatus(StParsing)>>, pc |-> "parse"]
      [] data.data = "Parsed" -> [msgs |-> <<>>, pc |-> "groups"]
      [] OTHER -> [msgs |-> <<>>, pc |-> "unreachable"]

\* WorkerAdvance without the send at the end of the loop's body: only the
\* record load_data left is published.
WorkerAdvanceNoPublish(s, w, data) ==
    Send([s EXCEPT !.workers[w].data = data, !.workers[w].pc = LoopMatch(data).pc],
         w, (IF s.workers[w].pc = "load_data" THEN <<CmdUpdateLoadedData(data)>> ELSE <<>>)
                \o LoopMatch(data).msgs)

\* A stage call returned Ok and left `data`: the worker publishes the record
\* and runs the loop up to the next await.
WorkerAdvance(s, w, data) ==
    Send([s EXCEPT !.workers[w].data = data, !.workers[w].pc = LoopMatch(data).pc],
         w, <<CmdUpdateLoadedData(data)>> \o LoopMatch(data).msgs)

\* WorkerFail without `return`: the worker goes on to publish its record and
\* to take the next turn of the loop.
WorkerFailNoReturn(s, w, text) ==
    Send(s, w, <<CmdSetStatus(text), CmdUpdateLoadedData(s.workers[w].data)>>
                   \o LoopMatch(s.workers[w].data).msgs)

\* WorkerFail without `return`: after the status the worker falls through
\* to the send of its record and to the next turn of the loop.
WorkerFailFallsThrough(s, w, text) ==
    Send([s EXCEPT !.workers[w].pc = LoopMatch(s.workers[w].data).pc],
         w, <<CmdSetStatus(text), CmdUpdateLoadedData(s.workers[w].data)>>
                \o LoopMatch(s.workers[w].data).msgs)

\* A stage call returned Err: the worker sends a status and returns.
WorkerFail(s, w, text) ==
    Send([s EXCEPT !.workers[w].pc = "done"], w, <<CmdSetStatus(text)>>)

\* WorkerFinish without `return`: the worker goes on to publish its record
\* and waits for get_groups_from_session again.
WorkerFinishNoReturn(s, w, all_groups) ==
    Send(s, w, <<CmdParsedTabGroups(all_groups), CmdUpdateLoadedData(s.workers[w].data)>>)

\* get_groups_from_session returned Ok: the worker sends the groups and returns.
WorkerFinish(s, w, all_groups) ==
    Send([s EXCEPT !.workers[w].pc = "done"], w, <<CmdParsedTabGroups(all_groups)>>)

\* data.load_data().await returns.
WorkerLoadData(w) ==
    /\ workers[w].pc = "load_data"
    /\ \/ Becomes(WorkerFail(Self, w, StFailRead))
       \/ \E stage \in LoadDataResults :
              Becomes(WorkerAdvance([Self EXCEPT !.workers[w].first = stage], w,
                                    LoadData(workers[w].data, stage)))

\* data.decompress_data().await returns.
WorkerDecompress(w) ==
    /\ workers[w].pc = "decompress"
    /\ \/ Becomes(WorkerFail(Self, w, StFailDecompress))
       \/ Becomes(WorkerAdvance(Self, w, DecompressData(workers[w].data)))

\* data.parse_session_data().await returns.
WorkerParse(w) ==
    /\ workers[w].pc = "parse"
    /\ \/ Becomes(WorkerFail(Self, w, StFailParse))
       \/ Becomes(WorkerAdvance(Self, w, ParseSessionData(workers[w].data)))

\* data.get_groups_from_session(true).await returns.
WorkerGroups(w) ==
    /\ workers[w].pc = "groups"
    /\ \/ Becomes(WorkerFail(Self, w, StFailList))
       \/ /\ InFlight(Self) < MaxInFlight
          /\ \E all_groups \in GroupsOfSession(workers[w].data) :
                 Becomes(WorkerFinish(Self, w, all_groups))

(* ------------------- the worker of RegeneratePreview ------------------- *)
\* The worker t leaves the bag and sends msg.
PreviewWorkerSend(s, t, msg) ==
    Update([s EXCEPT !.preview_tasks = @ (-) SetToBag({t})], msg)

\* data.to_text_links(options).await returns Ok, which takes a parsed session.
PreviewWorkerOk(t) ==
    /\ BagIn(t, preview_tasks)
    /\ t.data.data = "Parsed"
    /\ Becomes(PreviewWorkerSend(Self, t, CmdSetPreview(ToTextLinks(t.data, t.options))))

\* data.to_text_links(options).await returns Err.
PreviewWorkerErr(t) ==
    /\ BagIn(t, preview_tasks)
    /\ Becomes(PreviewWorkerSend(Self, t, CmdSetStatus(StFailPreview)))

(* -------------------- the worker of SaveLinksToFile -------------------- *)
\* SaveWorkerSend with the two branches of `if let Err(e) = ..` taken for
\* each other: the status sent is that of the other result.
SaveWorkerSendInverted(s, t, result, text) ==
    LET other == IF text = StSaved THEN StFailSave ELSE StSaved
    IN  Update([s EXCEPT !.save_tasks = @ \ {t},
                         !.save_log[t.id].result = result,
                         !.save_log[t.id].statuses = Append(@, other),
                         !.hist = None],
               CmdSetStatus(other))

\* The worker t leaves, and MsgSender::send of the status for its result.
SaveWorkerSend(s, t, result, text) ==
    Update([s EXCEPT !.save_tasks = @ \ {t},
                     !.save_log[t.id].result = result,
                     !.save_log[t.id].statuses = Append(@, text),
                     !.hist = None],
           CmdSetStatus(text))

\* What save_links writes for the worker t (spec.md section 4.5): the links
\* of its record and selection in its format.
SavedLinks(t) ==
    [text |-> ToTextLinks(t.data, t.selected), format |-> t.output_options.format]

\* save_links can return Ok (spec.md section 4.5, write_to_file): it takes a
\* parsed session, and a target that exists only with `overwrite`.
SaveLinksCanSucceed(s, t) ==
    /\ t.data.data = "Parsed"
    /\ (IsSome(s.written[t.save_path]) => t.output_options.overwrite)

\* SaveWorkerOk of a worker that reads the record, the selection and the
\* flags of the controller when it writes, not its clones.
SaveWorkerOkLive(t) ==
    LET live == [t EXCEPT !.data = Unwrap(loaded_input_data),
                          !.selected = selected_tab_groups,
                          !.output_options.overwrite = overwrite,
                          !.output_options.create_folder = create_folder]
    IN  /\ t \in save_tasks
        /\ SaveLinksCanSucceed(Self, live)
        /\ Becomes(SaveWorkerSend([Self EXCEPT !.written[t.save_path] =
                                                   Some(SavedLinks(live))],
                                  t, "Ok", StSaved))

\* data.save_links(save_path, selected, output_options).await returns Ok.
SaveWorkerOk(t) ==
    /\ t \in save_tasks
    /\ SaveLinksCanSucceed(Self, t)
    /\ Becomes(SaveWorkerSend([Self EXCEPT !.written[t.save_path] = Some(SavedLinks(t))],
                              t, "Ok", StSaved))

\* data.save_links(save_path, selected, output_options).await returns Err.
SaveWorkerErr(t) ==
    /\ t \in save_tasks
    /\ Becomes(SaveWorkerSend(Self, t, "Err", StFailSave))

(* ----------------------------- TabGroupList ---------------------------- *)
\* ListDelegate::items_count
ItemsCount(groups, section) ==
    CASE section = 0 -> groups.open
      [] section = 1 -> groups.closed
      [] OTHER -> 0

\* The IndexPaths of the bound.
IndexPaths ==
    {[section |-> sec, row |-> r] : sec \in 0..1, r \in 0..(MaxGroups - 1)}

\* ListDelegate::set_selected_index, for an item the list shows.
SetSelectedIndex(ix) ==
    /\ ix.row < ItemsCount(tab_groups, ix.section)
    /\ Becomes([Self EXCEPT !.selected_item = Some(ix)])

\* WasSelected with the lists of the two sections taken for each other.
WasSelectedOtherSection(sel, ix) ==
    LET selected_indexes == IF ix.section = 0 THEN sel.closed_group_indexes
                                              ELSE sel.open_group_indexes
    IN  IsSome(selected_indexes) /\ Contains(Unwrap(selected_indexes), ix.row)

\* The test `was_selected` of confirm (and `is_selected` of render_item).
WasSelected(sel, ix) ==
    LET selected_indexes == IF ix.section = 0 THEN sel.open_group_indexes
                                              ELSE sel.closed_group_indexes
    IN  IsSome(selected_indexes) /\ Contains(Unwrap(selected_indexes), ix.row)

\* ConfirmCall without the negation of was_selected: a listed item is
\* selected again, an unlisted one is deselected.
ConfirmCallNotNegated(sel, groups, ix) ==
    ChangeSelectedTabGroup(sel, groups, ix.row, ix.section = 0, WasSelected(sel, ix))

\* The call confirm makes for the item ix.
ConfirmCall(sel, groups, ix) ==
    ChangeSelectedTabGroup(sel, groups, ix.row, ix.section = 0, ~WasSelected(sel, ix))

\* ListDelegate::confirm, with the spawn of the task that will send
\* RegeneratePreview.
ConfirmItem(s) ==
    LET r == ConfirmCall(s.selected_tab_groups, s.tab_groups, Unwrap(s.selected_item))
    IN  [s EXCEPT !.selected_tab_groups = r.sel,
                  !.regen_pending = IF r.ret THEN @ + 1 ELSE @,
                  !.last_call = Some([sel |-> s.selected_tab_groups,
                                      groups |-> s.tab_groups,
                                      index |-> Unwrap(s.selected_item).row,
                                      open |-> Unwrap(s.selected_item).section = 0,
                                      select |-> ~WasSelected(s.selected_tab_groups,
                                                              Unwrap(s.selected_item)),
                                      ret |-> r.ret])]

Confirm ==
    /\ IsSome(selected_item)
    /\ Unwrap(selected_item).section \in {0, 1}
    /\ InFlight(Self) < MaxInFlight
    /\ Becomes(ConfirmItem(Self))

\* Confirms in quick succession: the preview workers of earlier confirms
\* may still be in flight, up to MaxPreviews.
ConfirmQuickly ==
    /\ IsSome(selected_item)
    /\ Unwrap(selected_item).section \in {0, 1}
    /\ InFlight(Self) < MaxPreviews
    /\ Becomes(ConfirmItem(Self))

\* The task spawned by confirm runs: sender.send(Command::RegeneratePreview).
ConfirmTaskRuns ==
    /\ regen_pending > 0
    /\ Becomes(Update([Self EXCEPT !.regen_pending = @ - 1, !.hist = None],
                      CmdRegeneratePreview))

\* The "Load new data" button.
ClickLoad ==
    /\ loads < MaxLoads
    /\ Becomes(LoadNewInputData(Self))

\* The input "Browse" button, once the file dialog has returned the file.
BrowseInput(file) ==
    Becomes(SetInputPath(Self, ToStringLossy(file), Some(file)))

\* WizardList::set_selected_index for a profile whose session store file
\* is `file`: SetInputPath without a handle, then LoadNewInputData.
WizardSelect(file) ==
    /\ loads < MaxLoads
    /\ Becomes(LoadNewInputData(SetInputPath(Self, ToStringLossy(file), None)))

\* The user edits the text of the input path field.
EditInput(text) ==
    /\ text # new_input
    /\ Becomes([Self EXCEPT !.new_input = text])

\* Update::update is handed Command::RegeneratePreview.
HandleRegeneratePreview ==
    /\ InFlight(Self) < MaxInFlight
    /\ Becomes([RegeneratePreview([Self EXCEPT !.hist = None])
                    EXCEPT !.handled = Some("RegeneratePreview")])

\* Update::update is handed Command::SaveLinksToFile.
HandleSaveLinksToFile ==
    /\ saves < MaxSaves
    /\ Becomes([SaveLinksToFile([Self EXCEPT !.hist = None])
                    EXCEPT !.handled = Some("SaveLinksToFile")])

\* The "Save links to file" button.
ClickSave ==
    /\ saves < MaxSaves
    /\ Becomes(SaveLinksToFile([Self EXCEPT !.hist = None]))

\* The checkboxes "Create folder if it doesn't exist" and "Overwrite file if
\* it already exists".
ClickCreateFolder == Becomes([Self EXCEPT !.create_folder = ~@])
ClickOverwrite == Becomes([Self EXCEPT !.overwrite = ~@])

\* The format dropdown.
SelectFormat(f) == Becomes([Self EXCEPT !.output_format = Some(f)])

\* The output "Browse" button, once the file dialog has returned a path.
BrowseOutput(p) == Becomes(SetSavePath(Self, p))

(* ---------------------------- specification ---------------------------- *)
Next ==
    \/ ClickLoad
    \/ \E w \in LoadIds : WorkerLoadData(w)
    \/ \E w \in LoadIds : WorkerDecompress(w)
    \/ \E w \in LoadIds : WorkerParse(w)
    \/ \E w \in LoadIds : WorkerGroups(w)
    \/ \E t \in BagToSet(preview_tasks) : PreviewWorkerOk(t)
    \/ \E t \in BagToSet(preview_tasks) : PreviewWorkerErr(t)
    \/ \E ix \in IndexPaths : SetSelectedIndex(ix)
    \/ Confirm
    \/ ConfirmTaskRuns

Spec == Init /\ [][Next]_vars

\* Any stretch of the worker of load w.
WorkerStep(w) ==
    WorkerLoadData(w) \/ WorkerDecompress(w) \/ WorkerParse(w) \/ WorkerGroups(w)

\* The loads alone: the button, the load workers and the preview workers
\* they start, with nobody touching the list.
NextLoad ==
    \/ ClickLoad
    \/ \E w \in LoadIds : WorkerStep(w)
    \/ \E t \in BagToSet(preview_tasks) : PreviewWorkerOk(t)
    \/ \E t \in BagToSet(preview_tasks) : PreviewWorkerErr(t)

\* Every stage call a load worker awaits returns.
LoadSpec ==
    InitLogged /\ [][NextLoad]_vars /\ \A w \in LoadIds : WF_vars(WorkerStep(w))

\* Any step of the worker of save k.
SaveWorkerStep(k) ==
    \E t \in save_tasks : t.id = k /\ (SaveWorkerOk(t) \/ SaveWorkerErr(t))

\* One file is loaded and its links are saved, with or without
\* `overwrite`: the two buttons and the checkbox, with the workers.
NextSave ==
    \/ (loads = 0 /\ ClickLoad)
    \/ \E w \in LoadIds : WorkerStep(w)
    \/ \E t \in BagToSet(preview_tasks) : PreviewWorkerOk(t)
    \/ \E t \in BagToSet(preview_tasks) : PreviewWorkerErr(t)
    \/ ClickSave
    \/ \E t \in save_tasks : SaveWorkerOk(t)
    \/ \E t \in save_tasks : SaveWorkerErr(t)
    \/ ClickOverwrite

\* Every save_links a save worker awaits returns.
SaveSpec ==
    Init /\ [][NextSave]_vars /\ \A k \in SaveIds : WF_vars(SaveWorkerStep(k))

\* No load worker is running.
NoLoadRunning == \A w \in LoadIds : workers[w].pc \in {"idle", "done"}

\* The list, the preview and one save together: a file is loaded, items
\* are confirmed, the links are saved, and while preview and save workers
\* are in flight items are confirmed, the overwrite checkbox is clicked and
\* the next file is loaded, whose worker has yet to return from load_data.
NextSnap ==
    \/ (NoLoadRunning /\ ClickLoad)
    \/ WorkerStep(1)
    \/ \E t \in BagToSet(preview_tasks) : PreviewWorkerOk(t)
    \/ \E t \in BagToSet(preview_tasks) : PreviewWorkerErr(t)
    \/ \E ix \in IndexPaths : SetSelectedIndex(ix)
    \/ Confirm
    \/ ConfirmTaskRuns
    \/ (saves = 0 /\ ClickSave)
    \/ \E t \in save_tasks : SaveWorkerOk(t)
    \/ \E t \in save_tasks : SaveWorkerErr(t)
    \/ ClickOverwrite

SnapSpec == Init /\ [][NextSnap]_vars

\* One file is loaded and list items are confirmed in quick succession;
\* every to_text_links returns Ok, in any order.
NextPreview ==
    \/ (loads = 0 /\ ClickLoad)
    \/ WorkerStep(1)
    \/ \E t \in BagToSet(preview_tasks) : PreviewWorkerOk(t)
    \/ \E ix \in IndexPaths : SetSelectedIndex(ix)
    \/ ConfirmQuickly
    \/ ConfirmTaskRuns

PreviewSpec == Init /\ [][NextPreview]_vars

\* The input path alone: the file dialog, the wizard, the text field and
\* the "Load new data" button.
NextPath ==
    \/ \E file \in FilePaths : BrowseInput(file)
    \/ \E file \in FilePaths : WizardSelect(file)
    \/ \E text \in InputTexts : EditInput(text)
    \/ ClickLoad

PathSpec == Init /\ [][NextPath]_vars

\* The commands that may find nothing to do: one file is loaded, and before,
\* while and after that RegeneratePreview and SaveLinksToFile are handled,
\* with a format selected or, where the list of formats lacks PDF, without.
NextFrame ==
    \/ (loads = 0 /\ ClickLoad)
    \/ WorkerStep(1)
    \/ \E t \in BagToSet(preview_tasks) : PreviewWorkerOk(t)
    \/ \E t \in BagToSet(preview_tasks) : PreviewWorkerErr(t)
    \/ HandleRegeneratePreview
    \/ HandleSaveLinksToFile
    \/ \E t \in save_tasks : SaveWorkerOk(t)
    \/ \E t \in save_tasks : SaveWorkerErr(t)

FrameSpec == InitAnyFormats /\ [][NextFrame]_vars

(* ------------------------------ properties ---------------------------- *)
Last(seq) == seq[Len(seq)]
IsPrefix(a, b) == Len(a) <= Len(b) /\ SubSeq(b, 1, Len(a)) = a
\* The stage of an Option<FileInfo>.
StageOf(o) == IF IsSome(o) THEN Unwrap(o).data ELSE "NoData"
\* The positions of seq that hold a command cmd.
Positions(seq, cmd) == {k \in 1..Len(seq) : seq[k].cmd = cmd}
\* The positions of seq that hold SetStatus(text).
StatusPositions(seq, text) ==
    {k \in 1..Len(seq) : seq[k].cmd = "SetStatus" /\ seq[k].text = text}
\* The worker of load w is that of a superseded load and takes this step.
StaleWorkerStep(w) == w < loads /\ loads' = loads /\ workers'[w] # workers[w]
\* The commands the worker of load w has sent (under LoadSpec).
Sent(w) == Unwrap(sent)[w]
\* The worker of load w has returned after sending ParsedTabGroups.
Succeeded(w) ==
    /\ workers[w].pc = "done"
    /\ Last(Sent(w)).cmd = "ParsedTabGroups"

\* C1: once LoadNewInputData has been handled, no command sent afterwards by
\* the worker of an earlier load changes loaded_input_data, tab_groups or
\* the status.
C1_StaleMessagesAreInert ==
    [][\A w \in LoadIds :
          StaleWorkerStep(w) =>
              /\ loaded_input_data' = loaded_input_data
              /\ tab_groups' = tab_groups
              /\ status' = status]_vars

\* C2: when two loads were started one after the other and both workers
\* have finished with success, loaded_input_data and tab_groups are those
\* of the load started last.
C2_LastLoadWins ==
    (loads >= 2 /\ \A w \in 1..loads : Succeeded(w))
        => /\ Unwrap(loaded_input_data).load = loads
           /\ tab_groups.load = loads

\* C3: from one handled command to the next, the stage of loaded_input_data
\* never moves backward, except in the step of LoadNewInputData.
C3_StageNeverMovesBack ==
    [][loads' = loads =>
          StageRank(StageOf(loaded_input_data')) >= StageRank(StageOf(loaded_input_data))]_vars

\* The stage of the last record published in the commands seq, if any.
LastPublished(seq) ==
    LET ks == Positions(seq, "UpdateLoadedData")
    IN  IF ks = {} THEN "NoData"
        ELSE seq[CHOOSE k \in ks : \A j \in ks : j <= k].data.data

\* A worker that sent the failure `text` sent it last and has returned,
\* sent no ParsedTabGroups, and last published a record at `stage`.
HaltedAt(w, text, stage) ==
    StatusPositions(Sent(w), text) # {} =>
        /\ StatusPositions(Sent(w), text) = {Len(Sent(w))}
        /\ workers[w].pc = "done"
        /\ Positions(Sent(w), "ParsedTabGroups") = {}
        /\ LastPublished(Sent(w)) = stage

\* C4: a worker whose decompress_data (parse_session_data) fails sends the
\* failure status as its last message, no UpdateLoadedData and no
\* ParsedTabGroups after it, and the last record it published is still
\* Compressed (Uncompressed).
C4_FailureHaltsWorker ==
    \A w \in LoadIds :
        /\ HaltedAt(w, StFailDecompress, "Compressed")
        /\ HaltedAt(w, StFailParse, "Uncompressed")
\* Both failures have happened.
C4_Witness ==
    /\ workers[1].pc = "done" /\ Last(Sent(1)) = CmdSetStatus(StFailDecompress)
    /\ workers[2].pc = "done" /\ Last(Sent(2)) = CmdSetStatus(StFailParse)

\* The statuses of an undisturbed load of a compressed file.
LoadStatuses == <<StReading, StDecompressing, StParsing, StGenerating, StLoaded>>
\* The latest load found a compressed file.
LatestIsCompressed ==
    /\ loads >= 1
    /\ workers[loads].first = "Compressed"
\* No stage of the undisturbed load has failed.
NoFailureLogged == \A k \in 1..Len(Unwrap(hist)) : Unwrap(hist)[k] \notin FailureStatuses

\* C5: during a load of a compressed file with no other command handled in
\* between and no failing stage, the statuses set are the five of
\* LoadStatuses in that order, and all of them once the load is over.
C5_StatusSequence ==
    (IsSome(hist) /\ LatestIsCompressed /\ NoFailureLogged)
        => /\ IsPrefix(Unwrap(hist), LoadStatuses)
           /\ status = Last(Unwrap(hist))
           /\ Quiet(Self) => Unwrap(hist) = LoadStatuses
\* Such a load is over.
C5_Witness ==
    /\ IsSome(hist) /\ LatestIsCompressed /\ Quiet(Self)
    /\ Unwrap(hist) = LoadStatuses

\* The commands with which a load worker returns.
IsTerminal(msg) ==
    \/ msg.cmd = "ParsedTabGroups"
    \/ msg.cmd = "SetStatus" /\ msg.text \in FailureStatuses
Terminals(seq) == {k \in 1..Len(seq) : IsTerminal(seq[k])}
\* At most one decompress and one parse; a terminal command is sent exactly
\* when the worker returns, and is its last.
WorkerBounded(w) ==
    /\ Cardinality(StatusPositions(Sent(w), StDecompressing)) <= 1
    /\ Cardinality(StatusPositions(Sent(w), StParsing)) <= 1
    /\ workers[w].pc # "unreachable"
    /\ Terminals(Sent(w)) = IF workers[w].pc = "done" THEN {Len(Sent(w))} ELSE {}

\* C6: every load worker returns, after at most one decompress and one parse
\* transition, and its last message is its only terminal message
\* (ParsedTabGroups or a failure status).
C6_WorkerTerminates ==
    /\ [](\A w \in LoadIds : WorkerBounded(w))
    /\ \A w \in LoadIds : (workers[w].pc # "idle") ~> (workers[w].pc = "done")
\* A worker has returned after both transitions.
C6_Witness ==
    \E w \in LoadIds :
        /\ workers[w].pc = "done"
        /\ StatusPositions(Sent(w), StDecompressing) # {}
        /\ StatusPositions(Sent(w), StParsing) # {}
        /\ Last(Sent(w)).cmd = "ParsedTabGroups"

(* --------------------- properties of the selection -------------------- *)
\* The indexes tried: those of the bound and one past them.
Indexes == 0..MaxGroups
\* The explicit list of a partition holds index.
Listed(o, index) == IsSome(o) /\ Contains(Unwrap(o), index)
\* The selection after change_selected_tab_group, and what it returns.
After(sel, groups, index, open, select) ==
    ChangeSelectedTabGroup(sel, groups, index, open, select).sel
Returns(sel, groups, index, open, select) ==
    ChangeSelectedTabGroup(sel, groups, index, open, select).ret
\* The call recorded in last_call led from its `sel` to the present selection.
LastCallActed(select) ==
    /\ IsSome(last_call)
    /\ Unwrap(last_call).select = select
    /\ selected_tab_groups = After(Unwrap(last_call).sel, Unwrap(last_call).groups,
                                   Unwrap(last_call).index, Unwrap(last_call).open, select)

\* What C7 asks of a select that leads from `before` to `after`.
SelectPost(before, after, index, open) ==
    /\ Listed(TargetOf(after, open), index)
    /\ IF IsSome(OtherOf(before, open))
       THEN OtherOf(after, open) = OtherOf(before, open)
       ELSE OtherOf(after, open) = Some(<<>>)

\* C7: change_selected_tab_group(index, partition, select = true) ends with
\* the target list Some and holding index, and the other list Some: empty
\* if it was None, as it was if it was Some.
C7_SelectMaterializes ==
    /\ \A index \in Indexes, open \in BOOLEAN :
           SelectPost(selected_tab_groups,
                      After(selected_tab_groups, tab_groups, index, open, TRUE),
                      index, open)
    /\ (IsSome(last_call) /\ Unwrap(last_call).select)
           => SelectPost(Unwrap(last_call).sel, selected_tab_groups,
                         Unwrap(last_call).index, Unwrap(last_call).open)
\* A confirm has selected an item while the other partition was None.
C7_Witness ==
    /\ LastCallActed(TRUE)
    /\ OtherOf(Unwrap(last_call).sel, Unwrap(last_call).open) = None
    /\ OtherOf(selected_tab_groups, Unwrap(last_call).open) = Some(<<>>)

\* The selection once index has been removed from the target list.
Removed(sel, index, open) ==
    WithPair(open, Some(Retain(Unwrap(TargetOf(sel, open)), index)), OtherOf(sel, open))
AllOpenNoClosed == [open_group_indexes |-> None, closed_group_indexes |-> Some(<<>>)]

\* What C8 asks of a deselect that leads from `before` to `after`.
DeselectPost(before, after, groups, index, open) ==
    Listed(TargetOf(before, open), index) =>
        IF SelectedGroups(Removed(before, index, open), groups) = 0
        THEN after = AllOpenNoClosed
        ELSE /\ OtherOf(after, open) = OtherOf(before, open)
             /\ TargetOf(after, open) = Some(Retain(Unwrap(TargetOf(before, open)), index))

\* C8: a deselect that removes index and leaves selected_groups() at zero
\* ends with open = None and closed = Some(empty); one that leaves it above
\* zero changes the target list only.
C8_DeselectFallback ==
    /\ \A index \in Indexes, open \in BOOLEAN :
           DeselectPost(selected_tab_groups,
                        After(selected_tab_groups, tab_groups, index, open, FALSE),
                        tab_groups, index, open)
    /\ (IsSome(last_call) /\ ~Unwrap(last_call).select)
           => DeselectPost(Unwrap(last_call).sel, selected_tab_groups,
                           Unwrap(last_call).groups, Unwrap(last_call).index,
                           Unwrap(last_call).open)
\* A confirm has deselected the last selected item, and the fallback applied.
C8_Witness ==
    /\ LastCallActed(FALSE)
    /\ Unwrap(last_call).ret
    /\ Unwrap(last_call).sel.open_group_indexes # None
    /\ selected_tab_groups = AllOpenNoClosed

\* The deselect of index removes the last index of the target list.
RemovesLast(sel, index, open) ==
    /\ Listed(TargetOf(sel, open), index)
    /\ Retain(Unwrap(TargetOf(sel, open)), index) = <<>>

\* C9 as claimed: whenever a deselect removes the last explicit index of a
\* partition's list, the open partition is None afterwards, whatever the
\* other partition's list holds.
C9_AlwaysReexpands ==
    /\ \A index \in Indexes, open \in BOOLEAN :
           RemovesLast(selected_tab_groups, index, open)
               => After(selected_tab_groups, tab_groups, index, open, FALSE)
                      .open_group_indexes = None
    /\ (IsSome(last_call) /\ ~Unwrap(last_call).select
          /\ RemovesLast(Unwrap(last_call).sel, Unwrap(last_call).index,
                         Unwrap(last_call).open))
           => selected_tab_groups.open_group_indexes = None

\* What the amended C9 asks of a deselect that removes the last index.
ReexpandPost(before, after, index, open) ==
    RemovesLast(before, index, open) =>
        /\ IsSome(OtherOf(before, open))
        /\ IF Unwrap(OtherOf(before, open)) = <<>>
           THEN after = AllOpenNoClosed
           ELSE /\ after.open_group_indexes # None
                /\ after = Removed(before, index, open)

\* C9, amended: when a deselect removes the last explicit index of a
\* partition's list, the open partition is re-expanded to None if the other
\* partition's list is empty; if the other list holds an index, both lists
\* stay explicit and only the target list has changed.
C9_ReexpandsWhenNothingLeft ==
    /\ \A index \in Indexes, open \in BOOLEAN :
           ReexpandPost(selected_tab_groups,
                        After(selected_tab_groups, tab_groups, index, open, FALSE),
                        index, open)
    /\ (IsSome(last_call) /\ ~Unwrap(last_call).select)
           => ReexpandPost(Unwrap(last_call).sel, selected_tab_groups,
                           Unwrap(last_call).index, Unwrap(last_call).open)
\* A confirm has removed the last index of one list while the other list
\* held an index: no re-expansion.
C9_Witness ==
    /\ LastCallActed(FALSE)
    /\ RemovesLast(Unwrap(last_call).sel, Unwrap(last_call).index, Unwrap(last_call).open)
    /\ Unwrap(OtherOf(Unwrap(last_call).sel, Unwrap(last_call).open)) # <<>>
    /\ selected_tab_groups.open_group_indexes # None

\* C10: in every reachable selection state change_selected_tab_group
\* returns false exactly when it leaves the selection as it was: a select of
\* a listed index and a deselect of an unlisted one change nothing and
\* return false, and a call that returns true has changed the selection.
C10_ReturnsWhetherChanged ==
    /\ \A index \in Indexes, open \in BOOLEAN, select \in BOOLEAN :
           LET sel == selected_tab_groups
               after == After(sel, tab_groups, index, open, select)
               ret == Returns(sel, tab_groups, index, open, select)
           IN  /\ ret = (after # sel)
               /\ (select = Listed(TargetOf(sel, open), index))
                      => (~ret /\ after = sel)
    /\ IsSome(last_call)
           => Unwrap(last_call).ret = (selected_tab_groups # Unwrap(last_call).sel)
\* A confirm has deselected an item: the call returned true, changed the
\* selection, and a second deselect of the item would find it unlisted.
C10_Witness ==
    /\ LastCallActed(FALSE)
    /\ Unwrap(last_call).ret
    /\ selected_tab_groups # Unwrap(last_call).sel
    /\ ~Listed(TargetOf(selected_tab_groups, Unwrap(last_call).open),
               Unwrap(last_call).index)
    /\ ~Returns(selected_tab_groups, tab_groups, Unwrap(last_call).index,
                Unwrap(last_call).open, FALSE)

\* The indexes of the open groups the list shows.
OpenIndexes == 0..(tab_groups.open - 1)
\* The selection after selecting and then deselecting (open, index).
RoundTrip(sel, groups, index) ==
    After(After(sel, groups, index, TRUE, TRUE), groups, index, TRUE, FALSE)

\* C11 as claimed: in every reachable selection state and for every open
\* group index i, selecting (open, i) and then deselecting (open, i) brings
\* selected_groups() back to the value it had before the select.
C11_RoundTripAlways ==
    \A i \in OpenIndexes :
        SelectedGroups(RoundTrip(selected_tab_groups, tab_groups, i), tab_groups)
            = SelectedGroups(selected_tab_groups, tab_groups)

\* C11, amended: the same for every open group index i that is not in the
\* explicit open list before the select, as in every select that confirm
\* makes: deselecting the item a confirm has just selected brings
\* selected_groups() back to what it was before that confirm.
C11_RoundTripOfUnlisted ==
    /\ \A i \in OpenIndexes :
           ~Listed(selected_tab_groups.open_group_indexes, i)
               => SelectedGroups(RoundTrip(selected_tab_groups, tab_groups, i), tab_groups)
                      = SelectedGroups(selected_tab_groups, tab_groups)
    /\ (IsSome(last_call) /\ Unwrap(last_call).select /\ Unwrap(last_call).open)
           => SelectedGroups(After(selected_tab_groups, tab_groups,
                                   Unwrap(last_call).index, TRUE, FALSE), tab_groups)
                  = SelectedGroups(Unwrap(last_call).sel, Unwrap(last_call).groups)
\* A round trip has happened: a confirm has deselected the only listed item,
\* which a confirm had selected while all open groups were selected, and all
\* of several open groups are selected again.
C11_Witness ==
    /\ LastCallActed(FALSE)
    /\ Unwrap(last_call).open
    /\ Unwrap(last_call).sel
           = After(AllOpenNoClosed, tab_groups, Unwrap(last_call).index, TRUE, TRUE)
    /\ Unwrap(last_call).index \in OpenIndexes
    /\ tab_groups.open >= 2
    /\ selected_tab_groups = AllOpenNoClosed
    /\ SelectedGroups(selected_tab_groups, tab_groups) = tab_groups.open

\* C12: while the loaded session has at least one open window, the selection
\* never resolves to zero groups of the current tab groups, whatever confirms
\* and reloads have been made: the export is never silently empty.
C12_ExportNeverEmpty ==
    tab_groups.open >= 1 => Included(selected_tab_groups, tab_groups) > 0

\* The record LoadNewInputData makes of the present inputs.
FreshRecord ==
    NewFileInfo(IF IsSome(new_input_data) THEN Unwrap(new_input_data) ELSE new_input,
                new_input_data, loads + 1)

\* C13: the step that handles LoadNewInputData leaves the selection at
\* open = None and closed = Some(empty), whatever it was, and
\* loaded_input_data at a fresh record, without data, for the path of the
\* inputs: no index is listed after the reload.
C13_ReloadResets ==
    [][loads' = loads + 1 =>
          /\ selected_tab_groups' = AllOpenNoClosed
          /\ loaded_input_data' = Some(FreshRecord)
          /\ StageOf(loaded_input_data') = "NoData"
          /\ \A i \in Indexes :
                 /\ ~Listed(selected_tab_groups'.open_group_indexes, i)
                 /\ ~Listed(selected_tab_groups'.closed_group_indexes, i)]_vars
\* A reload has just reset a selection that listed a closed group and a
\* record that was parsed: the preview worker of that selection is still
\* in flight, which keeps confirm from having changed it since.
C13_Witness ==
    /\ loads = 2
    /\ workers[2].pc = "load_data"
    /\ \E t \in BagToSet(preview_tasks) :
           /\ t.data.load = 1 /\ t.data.data = "Parsed"
           /\ t.options.closed_group_indexes = Some(<<0>>)
    /\ selected_tab_groups = AllOpenNoClosed
    /\ StageOf(loaded_input_data) = "NoData"
    /\ Unwrap(loaded_input_data).load = 2

\* The command at position k of seq comes right after the UpdateLoadedData
\* of a record at `stage`.
PublishedBefore(seq, k, stage) ==
    /\ k > 1
    /\ seq[k - 1].cmd = "UpdateLoadedData"
    /\ seq[k - 1].data.data = stage
\* The stage a worker's record is at while it awaits a call.
StageAwaiting(pc) ==
    CASE pc = "decompress" -> "Compressed"
      [] pc = "parse" -> "Uncompressed"
      [] pc = "groups" -> "Parsed"
      [] OTHER -> "NoData"

\* C15: a load worker publishes its record at each stage, with
\* UpdateLoadedData, before it sends the status of the next transition and
\* before it attempts that transition, and the Parsed record before
\* ParsedTabGroups; in a load that no other load overlaps, the preview
\* worker that ParsedTabGroups starts reads that load's record at Parsed.
C15_PublishBeforeNext ==
    /\ \A w \in LoadIds :
           /\ \A k \in StatusPositions(Sent(w), StDecompressing) :
                  PublishedBefore(Sent(w), k, "Compressed")
           /\ \A k \in StatusPositions(Sent(w), StParsing) :
                  PublishedBefore(Sent(w), k, "Uncompressed")
           /\ \A k \in Positions(Sent(w), "ParsedTabGroups") :
                  PublishedBefore(Sent(w), k, "Parsed")
           /\ workers[w].pc \in {"decompress", "parse", "groups"} =>
                  /\ LastPublished(Sent(w)) = StageAwaiting(workers[w].pc)
                  /\ workers[w].data.data = StageAwaiting(workers[w].pc)
    /\ IsSome(hist) =>
           \A t \in BagToSet(preview_tasks) :
               t.data.data = "Parsed" /\ t.data.load = loads
\* A load that nothing overlapped has sent ParsedTabGroups, after both
\* transitions, and the preview worker it started is in flight.
C15_Witness ==
    /\ IsSome(hist)
    /\ loads = 2
    /\ workers[2].pc = "done"
    /\ workers[2].first = "Compressed"
    /\ Last(Sent(2)).cmd = "ParsedTabGroups"
    /\ preview_tasks # EmptyBag

\* C16: no load worker reaches the branch `None => unreachable!(..)`: in
\* every turn of the loop, that is whenever the worker awaits a call after
\* load_data has succeeded, and when it has returned from the loop, its
\* record holds data: Compressed, Uncompressed or Parsed.
C16_NoneArmUnreachable ==
    \A w \in LoadIds :
        /\ workers[w].pc # "unreachable"
        /\ workers[w].pc \in {"decompress", "parse", "groups"}
               => workers[w].data.data \in {"Compressed", "Uncompressed", "Parsed"}
        /\ (workers[w].pc = "done" /\ workers[w].first # "NoData")
               => workers[w].data.data \in {"Compressed", "Uncompressed", "Parsed"}
\* A worker is in its third turn of the loop, after a decompress and a parse
\* that succeeded.
C16_Witness ==
    \E w \in LoadIds :
        /\ workers[w].pc = "groups"
        /\ workers[w].first = "Compressed"
        /\ workers[w].data.data = "Parsed"

\* C17: a confirm spawns the task that sends RegeneratePreview exactly when
\* its call of change_selected_tab_group returned true, and nothing else
\* spawns one; the call confirm makes for an item of section 0 or 1 always
\* returns true and changes the selection, so every such confirm sends
\* exactly one RegeneratePreview.
C17_ConfirmRegenerates ==
    /\ [](\A ix \in IndexPaths :
             LET r == ConfirmCall(selected_tab_groups, tab_groups, ix)
             IN  r.ret /\ r.sel # selected_tab_groups)
    /\ [](IsSome(last_call) =>
             /\ Unwrap(last_call).ret
             /\ selected_tab_groups # Unwrap(last_call).sel)
    /\ [][/\ IsSome(last_call') =>
                regen_pending' = regen_pending + (IF Unwrap(last_call').ret THEN 1 ELSE 0)
          /\ regen_pending' > regen_pending => IsSome(last_call')
          /\ regen_pending' < regen_pending =>
                /\ regen_pending' = regen_pending - 1
                /\ (IsSome(loaded_input_data) => status' = StGenerating)]_vars
\* A confirm has deselected an item and its task is waiting to send
\* RegeneratePreview.
C17_Witness ==
    /\ LastCallActed(FALSE)
    /\ Unwrap(last_call).ret
    /\ regen_pending = 1
    /\ IsSome(selected_item)
    /\ ~WasSelected(selected_tab_groups, Unwrap(selected_item))

(* ------------------------ properties of saving ------------------------ *)
\* The worker of save k is in flight.
Saving(k) == \E t \in save_tasks : t.id = k
\* The statuses of save k fit its progress: none before it starts, "Saving
\* links to file" while its worker is in flight, and then one more, the
\* status of the result of save_links.
SaveBounded(k) ==
    CASE k > saves -> save_log[k] = NoSave /\ ~Saving(k)
      [] Saving(k) -> save_log[k] = [statuses |-> <<StSaving>>, result |-> "none"]
      [] OTHER ->
           \/ save_log[k] = [statuses |-> <<StSaving, StSaved>>, result |-> "Ok"]
           \/ save_log[k] = [statuses |-> <<StSaving, StFailSave>>, result |-> "Err"]

\* C14: every SaveLinksToFile that finds a record loaded and a format
\* selected sets the status "Saving links to file", and its worker
\* eventually sets exactly one more status for it: "Successfully saved
\* links to a file" if save_links returned Ok, "Failed to save links to
\* file" if it returned Err.
C14_SaveStatuses ==
    /\ [](\A k \in SaveIds : SaveBounded(k))
    /\ [][\A k \in SaveIds :
             save_log'[k] # save_log[k] => status' = Last(save_log'[k].statuses)]_vars
    /\ \A k \in SaveIds : Saving(k) ~> (~Saving(k) /\ save_log[k].result # "none")
\* The first save has written the links of a parsed session, and the second
\* has failed.
C14_Witness ==
    /\ save_log[1] = [statuses |-> <<StSaving, StSaved>>, result |-> "Ok"]
    /\ save_log[2] = [statuses |-> <<StSaving, StFailSave>>, result |-> "Err"]
    /\ IsSome(written[""])
    /\ status = StFailSave

(* ----------------------- properties of the workers -------------------- *)
\* What a worker's last message leaves alone.
ControllerUnchanged ==
    UNCHANGED <<new_input, new_input_data, loaded_input, loaded_input_data,
                tab_groups, selected_tab_groups, selected_item, output_path,
                create_folder, overwrite, output_format, workers, loads, saves,
                regen_pending>>
\* The clones a preview worker spawned in this step owns.
PreviewSnapshot ==
    [data |-> Unwrap(loaded_input_data'), options |-> selected_tab_groups']
\* The clones a save worker spawned in this step owns.
SaveSnapshot(t) ==
    /\ t.data = Unwrap(loaded_input_data)
    /\ t.save_path = output_path
    /\ t.selected = selected_tab_groups
    /\ t.output_options = [format |-> Unwrap(output_format),
                           overwrite |-> overwrite,
                           create_folder |-> create_folder]

\* C18: a preview worker and a save worker own clones of the record and the
\* selection (the save worker also of the path, the flags and the format)
\* as they are when RegeneratePreview or SaveLinksToFile is handled; no
\* later step changes what a worker in flight owns; what the worker renders
\* or writes is made of its clones alone; and the step in which it ends
\* changes the controller only by its one message: the preview and the
\* status, or the status.
C18_WorkersUseSnapshots ==
    [][/\ \A t \in BagToSet(preview_tasks) \cup BagToSet(preview_tasks') :
             /\ CopiesIn(t, preview_tasks') > CopiesIn(t, preview_tasks) =>
                   /\ t = PreviewSnapshot
                   /\ preview_tasks' = preview_tasks (+) SetToBag({t})
             /\ CopiesIn(t, preview_tasks') < CopiesIn(t, preview_tasks) =>
                   /\ preview_tasks' = preview_tasks (-) SetToBag({t})
                   /\ \/ /\ preview' = Some(ToTextLinks(t.data, t.options))
                         /\ status' = StLoaded
                      \/ /\ preview' = preview
                         /\ status' = StFailPreview
                   /\ ControllerUnchanged
                   /\ UNCHANGED <<save_tasks, written>>
       /\ \A t \in save_tasks \cup save_tasks' :
             /\ t \notin save_tasks =>
                   /\ SaveSnapshot(t)
                   /\ save_tasks' = save_tasks \cup {t}
                   /\ status' = StSaving
             /\ t \notin save_tasks' =>
                   /\ save_tasks' = save_tasks \ {t}
                   /\ \/ /\ written' = [written EXCEPT ![t.save_path] = Some(SavedLinks(t))]
                         /\ status' = StSaved
                      \/ /\ written' = written
                         /\ status' = StFailSave
                   /\ ControllerUnchanged
                   /\ UNCHANGED <<preview, preview_tasks>>]_vars
\* While a save worker is in flight with the clones of a parsed record, a
\* confirm has just changed the selection it cloned and the overwrite
\* checkbox no longer is as it cloned it.
C18_Witness ==
    /\ IsSome(last_call)
    /\ \E t \in save_tasks :
           /\ t.data.data = "Parsed"
           /\ t.selected = Unwrap(last_call).sel
           /\ t.selected # selected_tab_groups
           /\ t.output_options.overwrite # overwrite

\* An explicit list holds no index twice.
NoDuplicates(o) ==
    IsSome(o) => \A i, j \in 1..Len(Unwrap(o)) : Unwrap(o)[i] = Unwrap(o)[j] => i = j
IsSet(sel) ==
    NoDuplicates(sel.open_group_indexes) /\ NoDuplicates(sel.closed_group_indexes)

\* C19: in every reachable state neither open_group_indexes nor
\* closed_group_indexes holds an index twice, and no call of
\* change_selected_tab_group made there, whatever its arguments, leaves a
\* list that does.
C19_ListsAreSets ==
    /\ IsSet(selected_tab_groups)
    /\ \A index \in Indexes, open \in BOOLEAN, select \in BOOLEAN :
           IsSet(After(selected_tab_groups, tab_groups, index, open, select))
\* Confirms have listed two open groups and a closed one.
C19_Witness ==
    /\ LastCallActed(TRUE)
    /\ IsSome(selected_tab_groups.open_group_indexes)
    /\ Len(Unwrap(selected_tab_groups.open_group_indexes)) = 2
    /\ IsSome(selected_tab_groups.closed_group_indexes)
    /\ Len(Unwrap(selected_tab_groups.closed_group_indexes)) = 1

\* Every index of an explicit list is below len.
AllBelow(o, len) ==
    IsSome(o) => \A k \in 1..Len(Unwrap(o)) : Unwrap(o)[k] < len

\* C20: in every reachable state every index in open_group_indexes or
\* closed_group_indexes is smaller than the length of that partition of the
\* current tab_groups.
C20_IndexesInRange ==
    /\ AllBelow(selected_tab_groups.open_group_indexes, tab_groups.open)
    /\ AllBelow(selected_tab_groups.closed_group_indexes, tab_groups.closed)

\* The shapes of a selection: both lists None, open None with closed empty,
\* or both lists explicit.
Shape(sel) ==
    /\ sel.open_group_indexes = None
           => sel.closed_group_indexes \in {None, Some(<<>>)}
    /\ sel.closed_group_indexes = None => sel.open_group_indexes = None

\* C21: in every reachable state, if open_group_indexes is None then
\* closed_group_indexes is None or Some(empty), and closed_group_indexes is
\* None only while open_group_indexes is None too, which is before the first
\* load; no call of change_selected_tab_group made there leaves an explicit
\* non-empty list in one partition and None in the other.
C21_SelectionShapes ==
    /\ Shape(selected_tab_groups)
    /\ selected_tab_groups.closed_group_indexes = None
           => (loads = 0 /\ selected_tab_groups = DefaultGenerateOptions)
    /\ \A index \in Indexes, open \in BOOLEAN, select \in BOOLEAN :
           Shape(After(selected_tab_groups, tab_groups, index, open, select))
\* A confirm has selected a closed group while all open groups were
\* selected through None: the open list has become explicit.
C21_Witness ==
    /\ LastCallActed(TRUE)
    /\ ~Unwrap(last_call).open
    /\ Unwrap(last_call).sel = AllOpenNoClosed
    /\ selected_tab_groups.open_group_indexes = Some(<<>>)
    /\ selected_tab_groups.closed_group_indexes = Some(<<Unwrap(last_call).index>>)

(* ------------------------ properties of confirm ----------------------- *)
\* The list of the section of ix.
ListOf(sel, ix) == TargetOf(sel, ix.section = 0)
\* An export with the selection sel includes the group ix, None standing
\* for every group of the partition.
IncludesGroup(sel, ix) ==
    ~IsSome(ListOf(sel, ix)) \/ Contains(Unwrap(ListOf(sel, ix)), ix.row)
\* The items the list shows.
ListItems == {ix \in IndexPaths : ix.row < ItemsCount(tab_groups, ix.section)}
\* A confirm of ix removes it and the zero-selection fallback applies.
FallbackApplies(sel, groups, ix) ==
    /\ WasSelected(sel, ix)
    /\ SelectedGroups(Removed(sel, ix.row, ix.section = 0), groups) = 0
\* The item of the call recorded in last_call.
LastItem ==
    [section |-> IF Unwrap(last_call).open THEN 0 ELSE 1, row |-> Unwrap(last_call).index]

\* What C22 as claimed asks of a confirm of ix that leads from `before` to
\* `after`.
FlipPost(before, after, groups, ix) ==
    IF IncludesGroup(before, ix)
    THEN FallbackApplies(before, groups, ix) \/ ~IncludesGroup(after, ix)
    ELSE IncludesGroup(after, ix)

\* C22 as claimed: a confirm on a list item flips whether that group is
\* included in the next export, reading None as all groups of the partition:
\* a group that was included is excluded afterwards, unless the
\* zero-selection fallback applies, and a group that was excluded is included.
C22_ConfirmFlipsInclusion ==
    /\ \A ix \in ListItems :
           FlipPost(selected_tab_groups,
                    ConfirmCall(selected_tab_groups, tab_groups, ix).sel, tab_groups, ix)
    /\ IsSome(last_call)
           => FlipPost(Unwrap(last_call).sel, selected_tab_groups,
                       Unwrap(last_call).groups, LastItem)

\* What the amended C22 asks of a confirm of ix.
FlipExplicitPost(before, after, groups, ix) ==
    CASE ~IsSome(ListOf(before, ix)) ->
             /\ IncludesGroup(after, ix)
             /\ ListOf(after, ix) = Some(<<ix.row>>)
             /\ IsSome(OtherOf(after, ix.section = 0))
      [] WasSelected(before, ix) ->
             IF FallbackApplies(before, groups, ix)
             THEN after = AllOpenNoClosed
             ELSE ~IncludesGroup(after, ix)
      [] OTHER -> IncludesGroup(after, ix)

\* C22, amended: a confirm on a list item whose partition has an explicit
\* list flips whether that group is included: a listed group is excluded
\* afterwards, unless the zero-selection fallback applies, which leaves
\* open = None and closed = Some(empty), and an unlisted group is included.
\* A confirm on an item whose partition is None, all its groups included,
\* keeps that group included: the partition's list becomes explicit and
\* holds that group alone, and the other partition's list is explicit.
C22_ConfirmFlipsListed ==
    /\ \A ix \in IndexPaths :
           FlipExplicitPost(selected_tab_groups,
                            ConfirmCall(selected_tab_groups, tab_groups, ix).sel,
                            tab_groups, ix)
    /\ IsSome(last_call)
           => FlipExplicitPost(Unwrap(last_call).sel, selected_tab_groups,
                               Unwrap(last_call).groups, LastItem)
\* A confirm has excluded an open group that was listed, while another
\* open group stays listed.
C22_Witness ==
    /\ LastCallActed(FALSE)
    /\ Unwrap(last_call).open
    /\ LastItem \in ListItems
    /\ IncludesGroup(Unwrap(last_call).sel, LastItem)
    /\ ~IncludesGroup(selected_tab_groups, LastItem)
    /\ Len(Unwrap(selected_tab_groups.open_group_indexes)) = 1

(* ------------------------ properties of the preview ------------------- *)
\* The preview of the current record with the current selection.
CurrentPreview == ToTextLinks(Unwrap(loaded_input_data), selected_tab_groups)

\* C23: when several preview workers were in flight together, then in
\* every order in which their SetPreview messages are handled, once all of
\* them have been handled the preview shown is the one generated from the
\* current selection and the current loaded record.
C23_LastPreviewIsCurrent ==
    (Quiet(Self) /\ IsSome(preview)) => preview = Some(CurrentPreview)

\* The record of the load started last is parsed, in the controller and in
\* its worker, and the preview shown was generated from it.
LatestLoadShown ==
    /\ loads >= 1
    /\ workers[loads].data.data = "Parsed"
    /\ StageOf(loaded_input_data) = "Parsed"
    /\ Unwrap(loaded_input_data).load = loads
    /\ IsSome(preview)
    /\ Unwrap(preview).data.load = loads

\* C24: whenever the status reads "Successfully loaded session data", the
\* load started last has reached the stage Parsed and the preview shown was
\* generated from its record; and no step replaces a failure status of the
\* latest load by this status with a preview of a worker started before
\* that load.
C24_LoadedMeansLatest ==
    /\ [](status = StLoaded => LatestLoadShown)
    /\ [][(status \in FailureStatuses /\ status' = StLoaded)
              => Unwrap(preview').data.load = loads]_vars

(* ----------------------- properties of the input path ----------------- *)
\* C25: after LoadNewInputData is handled, the path of the new record in
\* loaded_input_data is the path the loaded_input field shows, whatever
\* SetInputPath commands (of Browse, with a file handle, or of the wizard,
\* without one) and edits of the input path field came before the load.
C25_RecordPathIsShown ==
    [][loads' = loads + 1 => Unwrap(loaded_input_data').path = loaded_input']_vars

(* ------------------ properties of the commands without effect --------- *)
\* The command cmd finds nothing to do in the state s.
NothingToDo(s, cmd) ==
    CASE cmd = "RegeneratePreview" -> ~IsSome(s.loaded_input_data)
      [] cmd = "SaveLinksToFile" ->
             ~IsSome(s.loaded_input_data) \/ ~IsSome(s.output_format)
      [] OTHER -> FALSE
\* The step leaves the controller and the workers as they are.
WholeStateUnchanged ==
    UNCHANGED <<new_input, new_input_data, loaded_input, loaded_input_data,
                tab_groups, selected_tab_groups, selected_item, preview, status,
                loads, workers, regen_pending, preview_tasks, output_path,
                create_folder, overwrite, output_format, saves, save_tasks,
                written, save_log>>

\* C26: RegeneratePreview and SaveLinksToFile handled while
\* loaded_input_data is None, and SaveLinksToFile handled while no output
\* format is selected, leave the whole controller state as it is, the
\* status included, and start no worker.
C26_NothingToDoChangesNothing ==
    /\ [](/\ NothingToDo(Self, "RegeneratePreview") => RegeneratePreview(Self) = Self
          /\ NothingToDo(Self, "SaveLinksToFile") => SaveLinksToFile(Self) = Self)
    /\ [][(IsSome(handled') /\ NothingToDo(Self, Unwrap(handled')))
              => WholeStateUnchanged]_vars
\* SaveLinksToFile has been handled with a parsed file loaded and no format
\* selected: the status still is that of the load and no save has started.
C26_Witness ==
    /\ handled = Some("SaveLinksToFile")
    /\ StageOf(loaded_input_data) = "Parsed"
    /\ ~IsSome(output_format)
    /\ status = StLoaded
    /\ saves = 0
    /\ save_tasks = {}

\* Where a deselect finds the index listed, the other list is Some: the
\* count selected_groups() makes there never resolves a None.
DeselectNeverResolvesNone ==
    \A index \in Indexes, open \in BOOLEAN :
        Listed(TargetOf(selected_tab_groups, open), index)
            => IsSome(OtherOf(selected_tab_groups, open))

====
